---- MODULE Spec2Model ----
(***************************************************************************)
(* Travel_Agent: the weather lookup (geocode, then forecast), the two HTTP *)
(* endpoints built on it, and the agent tool that repeats the lookup.      *)
(*                                                                         *)
(* Python strings that the code takes apart or builds (the city name, the  *)
(* URLs, the f-strings) are sequences of string pieces; a JSON object is a *)
(* function whose DOMAIN is the set of keys it has; a Python call yields a *)
(* record that says whether it returned or raised, and which outbound      *)
(* calls it made, in order.                                                *)
(***************************************************************************)
EXTENDS Integers, Sequences, FiniteSets, TLC

VARIABLES geo, wx, stdout, request, gen, result, http

vars == <<geo, wx, stdout, request, gen, result, http>>

-----------------------------------------------------------------------------
(* Bounds of the model *)

\* longest city name, in characters
MaxCityLen == 2

\* most days a forecast array holds
MaxDays == 2

-----------------------------------------------------------------------------
(* Input domains *)

Chars == {"a", " "}

RECURSIVE SeqsUpTo(_, _)
SeqsUpTo(S, n) ==
    IF n = 0 THEN {<<>>}
    ELSE LET shorter == SeqsUpTo(S, n - 1)
         IN shorter \cup {Append(s, c) : s \in {t \in shorter : Len(t) = n - 1}, c \in S}

Cities == SeqsUpTo(Chars, MaxCityLen) \ {<<>>}

Dates == {"Sunday", "Monday"}

\* a JSON number or a JSON null, as an entry of a daily array
Num(n) == [t |-> "num", v |-> n]
Null == [t |-> "null", v |-> 0]
Entries == {Null, Num(10), Num(20)}

\* the days after today carry values that differ from every index-0 entry
LaterDay(i) == Num(30 + i)

DailyArray(first, n) == [i \in 1..n |-> IF i = 1 THEN first ELSE LaterDay(i)]

DailyKeys == {"temperature_2m_max", "temperature_2m_min", "precipitation_probability_max"}

\* a daily array is absent, empty, or holds n days starting with any entry
Absent == [t |-> "absent", v |-> 0]
Empty == [t |-> "empty", v |-> 0]
ArrayShapes == {Absent, Empty} \cup Entries

DailySections ==
    { [k \in {j \in DailyKeys : shape[j] # Absent} |->
          IF shape[k] = Empty THEN <<>> ELSE DailyArray(shape[k], n)]
      : shape \in [DailyKeys -> ArrayShapes], n \in 1..MaxDays }

NoExc == [type |-> "none", msg |-> ""]
NoJson == [nojson |-> "true"]
Exc(type, msg) == [type |-> type, msg |-> msg]

\* what requests.get(weather_url).json() can do: raise, or yield a JSON object
\* without or with a "daily" section
WeatherReplies ==
    {[kind |-> "exc", exc |-> Exc("ConnectionError", "forecast unreachable"), json |-> NoJson]}
    \cup {[kind |-> "json", exc |-> NoExc, json |-> [error |-> "true"]]}
    \cup {[kind |-> "json", exc |-> NoExc, json |-> [daily |-> d]] : d \in DailySections}

Paris == [latitude |-> "48.85", longitude |-> "2.35", country |-> "France"]
NoCountry == [latitude |-> "48.85", longitude |-> "2.35"]
NoLatitude == [longitude |-> "2.35", country |-> "France"]

\* what requests.get(geo_url).json() can do
GeoReplies ==
    {[kind |-> "exc", exc |-> Exc("JSONDecodeError", "geocoder sent no JSON"), json |-> NoJson]}
    \cup {[kind |-> "json", exc |-> NoExc, json |-> [generationtime_ms |-> "0.5"]]}
    \cup {[kind |-> "json", exc |-> NoExc, json |-> [results |-> r]]
            : r \in {<<>>, <<Paris>>, <<NoCountry>>, <<NoLatitude>>}}

\* text pieces a generated advice is made of
AdviceTexts == {<<"### Clothing", "\n", "*", " Bring a coat">>, <<"Pack light">>}

\* what client.models.generate_content(...) followed by response.text can do
GenReplies ==
    {[kind |-> "text", text |-> t, exc |-> NoExc] : t \in AdviceTexts}
    \cup {[kind |-> "exc", text |-> <<>>, exc |-> Exc("ClientError", m)]
            : m \in {"401 UNAUTHENTICATED", "429 RESOURCE_EXHAUSTED"}}
    \cup {[kind |-> "exc", text |-> <<>>, exc |-> Exc("ConnectError", "connection refused")]}
    \cup {[kind |-> "exc", text |-> <<>>, exc |-> Exc("ValidationError", "malformed response")]}

NoGen == [kind |-> "none", text |-> <<>>, exc |-> NoExc]

\* the print() sites of main.py; TRUE: the print returned, FALSE: it raised
LogSites == {"geo", "weather", "except", "ai"}
AllPrinted == [s \in LogSites |-> TRUE]
LogOutcomes(out) == IF out = "ok" THEN {AllPrinted} ELSE [LogSites -> BOOLEAN]
PrintError == Exc("BrokenPipeError", "[Errno 32] Broken pipe")

-----------------------------------------------------------------------------
(* Python values and calls *)

None == [type |-> "NoneType"]
Str(parts) == [type |-> "str", parts |-> parts]

Ret(v, calls) == [kind |-> "return", val |-> v, exc |-> NoExc, calls |-> calls]
Raise(e, calls) == [kind |-> "raise", val |-> None, exc |-> e, calls |-> calls]

HttpGet(url) == [api |-> "requests.get", arg |-> url]
Generate(prompt) == [api |-> "generate_content", arg |-> prompt]

\* str() of a JSON entry inside an f-string
Fmt(e) == IF e.t = "null" THEN "None" ELSE ToString(e.v)

\* s.replace(old, new) for a one-character old
RECURSIVE str_replace(_, _, _)
str_replace(s, old, new) ==
    IF s = <<>> THEN <<>>
    ELSE (IF Head(s) = old THEN new ELSE <<Head(s)>>) \o str_replace(Tail(s), old, new)

\* d.get(k): falsy when the key is missing or the list is empty
falsy_get(d, k) == k \notin DOMAIN d \/ Len(d[k]) = 0

Range(s) == {s[i] : i \in DOMAIN s}

dict_get(d, k, default) == IF k \in DOMAIN d THEN d[k] ELSE default

-----------------------------------------------------------------------------
(* main.py: get_weather_data *)

\* lines 45-55: the geocoding call, its debug print, the zero-results return
\* and the coordinates of the first result.  "next" says whether the function
\* goes on to the forecast.
geocode_stage(city_name, lg) ==
    LET city_quoted == str_replace(city_name, " ", <<"%", "2", "0">>)
        geo_url == <<"https://geocoding-api.open-meteo.com/v1/search?name=">>
                   \o city_quoted \o <<"&count=1&language=en&format=json">>
        calls == <<HttpGet(geo_url)>>
    IN  IF geo.kind = "exc" THEN [next |-> FALSE, out |-> Raise(geo.exc, calls)]
        ELSE IF ~lg["geo"] THEN [next |-> FALSE, out |-> Raise(PrintError, calls)]
        ELSE IF falsy_get(geo.json, "results") THEN [next |-> FALSE, out |-> Ret(None, calls)]
        ELSE LET location == geo.json["results"][1]
             IN  IF "latitude" \notin DOMAIN location
                 THEN [next |-> FALSE, out |-> Raise(Exc("KeyError", "'latitude'"), calls)]
                 ELSE IF "longitude" \notin DOMAIN location
                 THEN [next |-> FALSE, out |-> Raise(Exc("KeyError", "'longitude'"), calls)]
                 ELSE [next |-> TRUE, out |-> Ret(None, calls)]

\* daily[key][i] for a 0-based i: KeyError, IndexError, or the entry
subscript(daily, key, i) ==
    IF key \notin DOMAIN daily
    THEN [ok |-> FALSE, exc |-> Exc("KeyError", key), val |-> Null]
    ELSE IF i + 1 > Len(daily[key])
    THEN [ok |-> FALSE, exc |-> Exc("IndexError", "list index out of range"), val |-> Null]
    ELSE [ok |-> TRUE, exc |-> NoExc, val |-> daily[key][i + 1]]

Today(ok, exc, temp_max, temp_min, precip_prob) ==
    [ok |-> ok, exc |-> exc, temp_max |-> temp_max, temp_min |-> temp_min,
     precip_prob |-> precip_prob]


\* a lookup that orders the two temperatures instead of passing them through
parse_today_ordered(daily) ==
    LET temp_max == subscript(daily, "temperature_2m_max", 0)
        temp_min == subscript(daily, "temperature_2m_min", 0)
        precip_prob == subscript(daily, "precipitation_probability_max", 0)
        swap == temp_max.ok /\ temp_min.ok /\ temp_max.val.v < temp_min.val.v
    IN  IF ~temp_max.ok THEN Today(FALSE, temp_max.exc, Null, Null, Null)
        ELSE IF ~temp_min.ok THEN Today(FALSE, temp_min.exc, Null, Null, Null)
        ELSE IF ~precip_prob.ok THEN Today(FALSE, precip_prob.exc, Null, Null, Null)
        ELSE Today(TRUE, NoExc, IF swap THEN temp_min.val ELSE temp_max.val,
                   IF swap THEN temp_max.val ELSE temp_min.val, precip_prob.val)

\* lines 65-68: today's forecast is index 0 of each daily array; the three
\* subscripts run in source order and the first that fails raises
parse_today(daily) ==
    LET temp_max == subscript(daily, "temperature_2m_max", 0)
        temp_min == subscript(daily, "temperature_2m_min", 0)
        precip_prob == subscript(daily, "precipitation_probability_max", 0)
    IN  IF ~temp_max.ok THEN Today(FALSE, temp_max.exc, Null, Null, Null)
        ELSE IF ~temp_min.ok THEN Today(FALSE, temp_min.exc, Null, Null, Null)
        ELSE IF ~precip_prob.ok THEN Today(FALSE, precip_prob.exc, Null, Null, Null)
        ELSE Today(TRUE, NoExc, temp_max.val, temp_min.val, precip_prob.val)

\* lines 57-76: the forecast call, its debug print, the missing-daily return
\* and the summary
forecast_stage(city_name, lg, calls0) ==
    LET location == geo.json["results"][1]
        weather_url == <<"https://api.open-meteo.com/v1/forecast?latitude=",
                         location["latitude"], "&longitude=", location["longitude"],
                         "&daily=temperature_2m_max,temperature_2m_min,precipitation_probability_max&timezone=auto">>
        calls == Append(calls0, HttpGet(weather_url))
    IN  IF wx.kind = "exc" THEN Raise(wx.exc, calls)
        ELSE IF ~lg["weather"] THEN Raise(PrintError, calls)
        ELSE IF "daily" \notin DOMAIN wx.json THEN Ret(None, calls)
        ELSE LET today == parse_today(wx.json["daily"])
             IN  IF ~today.ok THEN Raise(today.exc, calls)
                 ELSE Ret([type |-> "dict",
                           city |-> city_name,
                           country |-> dict_get(location, "country", ""),
                           temp_max |-> today.temp_max,
                           temp_min |-> today.temp_min,
                           precip_prob |-> today.precip_prob], calls)

\* lines 44-76: the body of the try
get_weather_data_try(city_name, lg) ==
    LET g == geocode_stage(city_name, lg)
    IN  IF g.next THEN forecast_stage(city_name, lg, g.out.calls) ELSE g.out


\* a lookup that tries a second time when the first try raised
get_weather_data_retry(city_name, lg) ==
    LET r == get_weather_data_try(city_name, lg)
    IN  IF r.kind = "raise"
        THEN LET again == get_weather_data_try(city_name, lg)
             IN  IF again.kind = "raise" THEN Ret(None, r.calls \o again.calls)
                 ELSE Ret(again.val, r.calls \o again.calls)
        ELSE r

\* lines 42-79: the try with its handler, which prints and returns None; an
\* exception of the handler's own print leaves the function
get_weather_data(city_name, lg) ==
    LET r == get_weather_data_try(city_name, lg)
    IN  IF r.kind = "raise"
        THEN IF lg["except"] THEN Ret(None, r.calls) ELSE Raise(PrintError, r.calls)
        ELSE r

-----------------------------------------------------------------------------
(* main.py: the HTTP surface *)

HTTPException(status_code, detail) ==
    [type |-> "HTTPException", msg |-> "", status_code |-> status_code, detail |-> detail]


\* an endpoint that hands on whatever the lookup returned
get_weather_endpoint_unchecked(city, lg) == get_weather_data(city, lg)

\* lines 82-88
get_weather_endpoint(city, lg) ==
    LET data == get_weather_data(city, lg)
    IN  IF data.kind = "raise" THEN data
        ELSE IF data.val = None
             THEN Raise(HTTPException(404, <<"City not found">>), data.calls)
             ELSE data

\* the response the FastAPI application sends for what a route function did
http_response(r) ==
    IF r.kind = "return" THEN [status |-> 200, detail |-> <<>>, body |-> r.val]
    ELSE IF r.exc.type = "HTTPException"
         THEN [status |-> r.exc.status_code, detail |-> r.exc.detail, body |-> None]
         ELSE [status |-> 500, detail |-> <<"Internal Server Error">>, body |-> None]

\* lines 98-106: the prompt, an f-string over the summary (the degree sign of
\* the two literals before "C" is left out of the pieces)
build_prompt(weather_data) ==
    <<"Act as a Travel Advisor. Based on the following destination and weather info, ",
      "provide clothing and travel recommendations. Do NOT use asterisks for bolding. ",
      "Instead, put the topic at the start of the line, followed by a relevant emoji, ",
      "then the description. Use clear headings (using ###):\n\n",
      "Destination: ">> \o weather_data.city
    \o <<", ", weather_data.country, ". ",
         "Forecast: Max ", Fmt(weather_data.temp_max),
         "C, Min ", Fmt(weather_data.temp_min), "C, ",
         "Precipitation Probability: ", Fmt(weather_data.precip_prob), "%.">>

\* a generative step that answers with an empty advice when the call raised
ask_gemini_swallow(prompt, reply, lg, calls0) ==
    LET calls == Append(calls0, Generate(prompt))
    IN  IF reply.kind = "exc" THEN Ret(Str(<<>>), calls) ELSE Ret(Str(reply.text), calls)

\* a generative step that removes the asterisks the prompt asked not to use
ask_gemini_strip(prompt, reply, lg, calls0) ==
    LET calls == Append(calls0, Generate(prompt))
    IN  IF reply.kind = "exc"
        THEN IF ~lg["ai"] THEN Raise(PrintError, calls)
             ELSE Raise(HTTPException(500, <<"AI Agent error: ", reply.exc.msg>>), calls)
        ELSE Ret(Str(SelectSeq(reply.text, LAMBDA piece : piece # "*")), calls)

\* lines 108-117: the generative call and the handler that turns its
\* exception into a 500
ask_gemini(prompt, reply, lg, calls0) ==
    LET calls == Append(calls0, Generate(prompt))
    IN  IF reply.kind = "exc"
        THEN IF ~lg["ai"] THEN Raise(PrintError, calls)
             ELSE Raise(HTTPException(500, <<"AI Agent error: ", reply.exc.msg>>), calls)
        ELSE Ret(Str(reply.text), calls)

\* lines 91-123
travel_advice(destination, reply, lg) ==
    LET weather_data == get_weather_data(destination, lg)
    IN  IF weather_data.kind = "raise" THEN weather_data
        ELSE IF weather_data.val = None
        THEN Raise(HTTPException(404, <<"Weather data not found for destination">>),
                   weather_data.calls)
        ELSE LET advice == ask_gemini(build_prompt(weather_data.val), reply, lg,
                                      weather_data.calls)
             IN  IF advice.kind = "raise" THEN advice
                 ELSE Ret([type |-> "dict", advice |-> advice.val,
                           weather |-> weather_data.val], advice.calls)

-----------------------------------------------------------------------------
(* weather_agent/agent.py: the agent tool *)


\* a tool that reads the day the date names
forecast_index_by_date(date) == IF date = "Monday" THEN 1 ELSE 0

\* lines 45-49: the date is not parsed; the first index is read
forecast_index(date) == 0

\* lines 47-49
agent_parse_today(daily, date) ==
    LET temp_max == subscript(daily, "temperature_2m_max", forecast_index(date))
        temp_min == subscript(daily, "temperature_2m_min", forecast_index(date))
        precip_prob == subscript(daily, "precipitation_probability_max", forecast_index(date))
    IN  IF ~temp_max.ok THEN Today(FALSE, temp_max.exc, Null, Null, Null)
        ELSE IF ~temp_min.ok THEN Today(FALSE, temp_min.exc, Null, Null, Null)
        ELSE IF ~precip_prob.ok THEN Today(FALSE, precip_prob.exc, Null, Null, Null)
        ELSE Today(TRUE, NoExc, temp_max.val, temp_min.val, precip_prob.val)

\* lines 29-51: the body of the try (the degree sign of the two literals
\* before "C" is left out of the pieces)
get_weather_try(city, date) ==
    LET geo_url == <<"https://geocoding-api.open-meteo.com/v1/search?name=">>
                   \o city \o <<"&count=1&language=en&format=json">>
        calls1 == <<HttpGet(geo_url)>>
    IN  IF geo.kind = "exc" THEN Raise(geo.exc, calls1)
        ELSE IF falsy_get(geo.json, "results")
        THEN Ret(Str(<<"Could not find location for ">> \o city), calls1)
        ELSE LET location == geo.json["results"][1]
             IN  IF "latitude" \notin DOMAIN location
                 THEN Raise(Exc("KeyError", "'latitude'"), calls1)
                 ELSE IF "longitude" \notin DOMAIN location
                 THEN Raise(Exc("KeyError", "'longitude'"), calls1)
                 ELSE
    LET weather_url == <<"https://api.open-meteo.com/v1/forecast?latitude=",
                         location["latitude"], "&longitude=", location["longitude"],
                         "&daily=temperature_2m_max,temperature_2m_min,precipitation_probability_max&timezone=auto">>
        calls2 == Append(calls1, HttpGet(weather_url))
    IN  IF wx.kind = "exc" THEN Raise(wx.exc, calls2)
        ELSE IF "daily" \notin DOMAIN wx.json
        THEN Ret(Str(<<"Could not fetch weather data.">>), calls2)
        ELSE LET today == agent_parse_today(wx.json["daily"], date)
             IN  IF ~today.ok THEN Raise(today.exc, calls2)
                 ELSE Ret(Str(<<"Weather in ">> \o city
                              \o <<" (", dict_get(location, "country", ""), "): Max ",
                                   Fmt(today.temp_max), "C, Min ", Fmt(today.temp_min),
                                   "C, Rain chance: ", Fmt(today.precip_prob), "%.">>),
                          calls2)


\* a tool whose handler catches lookup errors only
get_weather_narrow_handler(city, date) ==
    LET r == get_weather_try(city, date)
    IN  IF r.kind = "raise" /\ r.exc.type \in {"KeyError", "IndexError"}
        THEN Ret(Str(<<"Error fetching weather: ", r.exc.msg>>), r.calls)
        ELSE r

\* lines 19-53: the try with its handler, which returns an error sentence
get_weather(city, date) ==
    LET r == get_weather_try(city, date)
    IN  IF r.kind = "raise"
        THEN Ret(Str(<<"Error fetching weather: ", r.exc.msg>>), r.calls)
        ELSE r

NoHttp == [status |-> 0, detail |-> <<>>, body |-> None]
NoRequest == [entry |-> "none", city |-> <<>>, date |-> ""]
NoResult == [kind |-> "none", val |-> None, exc |-> NoExc, calls |-> <<>>]

-----------------------------------------------------------------------------
(* The state machine *)

\* The two upstream services answer as they answer for the whole behaviour
\* (no upstream state change); stdout is writable.
Init ==
    /\ geo \in GeoReplies
    /\ wx \in WeatherReplies
    /\ stdout = "ok"
    /\ request = NoRequest
    /\ gen = NoGen
    /\ result = NoResult
    /\ http = NoHttp

\* GET /weather/{city}
GetWeather ==
    \E city \in Cities, lg \in LogOutcomes(stdout) :
        /\ request = NoRequest
        /\ request' = [entry |-> "GET /weather", city |-> city, date |-> ""]
        /\ gen' = NoGen
        /\ result' = get_weather_endpoint(city, lg)
        /\ http' = http_response(result')
        /\ UNCHANGED <<geo, wx, stdout>>

\* POST /travel_advice; the generative service answers this call with reply
TravelAdvice ==
    \E destination \in Cities, reply \in GenReplies, lg \in LogOutcomes(stdout) :
        /\ request = NoRequest
        /\ request' = [entry |-> "POST /travel_advice", city |-> destination, date |-> ""]
        /\ result' = travel_advice(destination, reply, lg)
        /\ gen' = reply
        /\ http' = http_response(result')
        /\ UNCHANGED <<geo, wx, stdout>>

\* the agent runtime invokes the tool
ToolGetWeather ==
    \E city \in Cities, date \in Dates :
        /\ request = NoRequest
        /\ request' = [entry |-> "get_weather", city |-> city, date |-> date]
        /\ gen' = NoGen
        /\ result' = get_weather(city, date)
        /\ http' = NoHttp
        /\ UNCHANGED <<geo, wx, stdout>>

\* the answer has been handed over; nothing of the request is kept
Deliver ==
    /\ request # NoRequest
    /\ request' = NoRequest
    /\ gen' = NoGen
    /\ result' = NoResult
    /\ http' = NoHttp
    /\ UNCHANGED <<geo, wx, stdout>>

Next == GetWeather \/ TravelAdvice \/ ToolGetWeather \/ Deliver

Spec == Init /\ [][Next]_vars

\* the same program with a stdout on which a print may raise
InitLog ==
    /\ geo \in GeoReplies
    /\ wx \in WeatherReplies
    /\ stdout \in {"ok", "broken"}
    /\ request = NoRequest
    /\ gen = NoGen
    /\ result = NoResult
    /\ http = NoHttp

SpecLog == InitLog /\ [][Next]_vars

-----------------------------------------------------------------------------
(* What the upstream answers amount to, read off the answers themselves *)

NoGeoResults ==
    geo.kind = "json" /\ ("results" \notin DOMAIN geo.json \/ geo.json["results"] = <<>>)

GeoUsable ==
    /\ geo.kind = "json"
    /\ "results" \in DOMAIN geo.json
    /\ geo.json["results"] # <<>>
    /\ {"latitude", "longitude"} \subseteq DOMAIN geo.json["results"][1]

ForecastUsable ==
    /\ wx.kind = "json"
    /\ "daily" \in DOMAIN wx.json
    /\ \A k \in DailyKeys : k \in DOMAIN wx.json["daily"] /\ wx.json["daily"][k] # <<>>

LookupSucceeds == GeoUsable /\ ForecastUsable

IsGeocode(call) ==
    call.api = "requests.get"
    /\ call.arg[1] = "https://geocoding-api.open-meteo.com/v1/search?name="

IsForecast(call) ==
    call.api = "requests.get"
    /\ call.arg[1] = "https://api.open-meteo.com/v1/forecast?latitude="

IsGenerate(call) == call.api = "generate_content"

IsGet == request.entry = "GET /weather"
IsPost == request.entry = "POST /travel_advice"
IsTool == request.entry = "get_weather"

\* the summary a 200 answer carries
Summary == IF IsPost THEN http.body.weather ELSE http.body

IsWeatherSentence(v) == v.type = "str" /\ v.parts[1] = "Weather in "

-----------------------------------------------------------------------------
(* The claims *)

\* C1: when the geocoder returns zero results (no "results" key or an empty
\* list), get_weather_data returns None for every city name, and
\* GET /weather/{city} answers 404 with detail "City not found", never 200.
C1_ZeroResultsNotFound ==
    NoGeoResults =>
        /\ \A c \in Cities :
               LET r == get_weather_data(c, AllPrinted)
               IN  r.kind = "return" /\ r.val = None
        /\ IsGet => http.status = 404 /\ http.detail = <<"City not found">>

C1_Witness == IsGet /\ NoGeoResults /\ http.status = 404 /\ " " \in Range(request.city)

\* C2: a POST /travel_advice whose lookup succeeds and whose generative call
\* fails (authentication, quota, network, malformed response) ends with 500
\* and detail "AI Agent error: " followed by the underlying message.
C2_GenerativeFailureIs500 ==
    (IsPost /\ LookupSucceeds /\ gen.kind = "exc") =>
        /\ http.status = 500
        /\ http.detail = <<"AI Agent error: ", gen.exc.msg>>

C2_Witness ==
    /\ IsPost /\ LookupSucceeds /\ gen.kind = "exc"
    /\ gen.exc.msg = "malformed response"
    /\ http.status = 500

\* C3: within one request the outbound calls are geocode, forecast,
\* generative call, in that order and each at most once; the forecast is
\* requested only when the geocoder gave a usable result, the generative call
\* is made only on POST /travel_advice after a successful lookup, and a lookup
\* that fails at either stage ends POST /travel_advice with 404 and no later
\* call.
C3_CallOrder ==
    LET c == result.calls
    IN  /\ Len(c) <= 3
        /\ request # NoRequest => Len(c) >= 1 /\ IsGeocode(c[1])
        /\ Len(c) >= 2 => IsForecast(c[2]) /\ GeoUsable
        /\ Len(c) >= 3 => IsGenerate(c[3]) /\ IsPost /\ LookupSucceeds
        /\ (IsPost /\ ~GeoUsable) => http.status = 404 /\ Len(c) = 1
        /\ (IsPost /\ GeoUsable /\ ~ForecastUsable) => http.status = 404 /\ Len(c) = 2
        /\ (IsPost /\ LookupSucceeds) => Len(c) = 3
        /\ (IsGet /\ LookupSucceeds) => Len(c) = 2

C3_Witness ==
    /\ IsPost /\ GeoUsable /\ ~ForecastUsable
    /\ http.status = 404
    /\ Len(result.calls) = 2

\* C4: every summary the lookup returns carries, as temp_max, temp_min and
\* precip_prob, exactly the index-0 entries of the provider's three daily
\* arrays, whatever their order.
C4_PassThrough ==
    ((IsGet \/ IsPost) /\ http.status = 200) =>
        /\ wx.kind = "json" /\ "daily" \in DOMAIN wx.json
        /\ Summary.temp_max = wx.json["daily"]["temperature_2m_max"][1]
        /\ Summary.temp_min = wx.json["daily"]["temperature_2m_min"][1]
        /\ Summary.precip_prob = wx.json["daily"]["precipitation_probability_max"][1]

C4_Witness ==
    /\ IsGet /\ http.status = 200
    /\ Summary.temp_max = Num(10) /\ Summary.temp_min = Num(20)
    /\ Len(wx.json["daily"]["temperature_2m_max"]) > 1

\* C5: when the lookup succeeds and the generative service returns a text,
\* POST /travel_advice answers 200 with that text as advice, unchanged, and
\* with the lookup's summary as weather.
C5_AdviceVerbatim ==
    (IsPost /\ LookupSucceeds /\ gen.kind = "text") =>
        /\ http.status = 200
        /\ http.body.advice = Str(gen.text)
        /\ http.body.weather = get_weather_data(request.city, AllPrinted).val

C5_Witness ==
    /\ IsPost /\ LookupSucceeds /\ gen.kind = "text"
    /\ "*" \in Range(gen.text)
    /\ http.status = 200

\* C6: the agent tool returns a string and never raises, whatever the two
\* upstream calls do.
C6_ToolReturnsString ==
    IsTool => result.kind = "return" /\ result.val.type = "str"

C6_Witness ==
    /\ IsTool
    /\ GeoUsable /\ wx.kind = "exc"
    /\ result.kind = "return"
    /\ result.val.parts[1] = "Error fetching weather: "

C8_LoggingHarmless ==
    IsGet => http = http_response(get_weather_endpoint(request.city, AllPrinted))

\* C9: no summary is partial: each of its five fields has a value, and a
\* forecast that supplies only part of the data (no daily section, a missing
\* or empty array, an entry without a value) makes the lookup fail.
C9_NoPartialSummary ==
    IsGet =>
        /\ http.status = 200 =>
               /\ {"city", "country", "temp_max", "temp_min", "precip_prob"}
                      \subseteq DOMAIN http.body
               /\ \A f \in {"temp_max", "temp_min", "precip_prob"} : http.body[f] # Null
        /\ (~ForecastUsable
            \/ \E k \in DailyKeys : wx.json["daily"][k][1] = Null) => http.status = 404

====
